---- MODULE Spec2Model ----
(***************************************************************************)
(* Model of yunmai_data_processor.py: the notification handler of          *)
(* YunmaiDelegate (frame check, decoding, history, publish) and the        *)
(* connect / wait loop of the __main__ block.                              *)
(*                                                                         *)
(* Python indices are 0-based; At(data, i) is data[i] of the source.       *)
(* A Python list index outside the list raises IndexError; the model       *)
(* makes every index the handler uses explicit so that this is visible.    *)
(***************************************************************************)
EXTENDS Integers, Sequences, FiniteSets, TLC

VARIABLES
    scale_connected,   \* the flag of the main loop (line 283)
    message_prev,      \* YunmaiDelegate.message_prev
    message_now,       \* YunmaiDelegate.message_now
    list_parsed_msg,   \* YunmaiDelegate.list_parsed_msg
    published,         \* the calls client.publish(topic, payload) made so far
    scale_name,        \* the configured device name (config_yunmai.cfg)
    elapsed,           \* time.time() - time_start, in ticks
    pc,                \* position of the main program
    io                 \* what the transport did in the last blocking call,
                       \* and the buffer it delivered if it delivered one

vars == <<scale_connected, message_prev, message_now, list_parsed_msg,
          published, scale_name, elapsed, pc, io>>

----------------------------------------------------------------------------
(* Bounds of the model *)

\* run budget of the loop, in ticks (the source's 4 days, scaled)
time_run == 2

\* notifications that decode to a finished weighing are delivered only while
\* the history is shorter than this
MaxHist == 2

\* longest buffer of the wide input set
MaxLen == 20

----------------------------------------------------------------------------
(* Program constants *)

MQTT_EN == TRUE

PacketStart == 13          \* 0x0d

TypeUnfinished == 1        \* 0x01

TypeFinished == 2          \* 0x02

TypeTimeCheck == 23        \* 0x17

DISCONNECTED == 1          \* btle.BTLEException.DISCONNECTED

\* the other codes a BTLEException can carry (COMM_ERROR, INTERNAL_ERROR, ...)
BTLECodes == {1, 2, 3}

ScaleNames == {"YunmaiScale", "YunmaiScaleE35F"}

----------------------------------------------------------------------------
(* Python helpers *)

Abs(x) == IF x < 0 THEN 0 - x ELSE x

\* data[i], 0-based
At(data, i) == data[i + 1]

\* x << n
RECURSIVE Shl(_, _)
Shl(x, n) == IF n = 0 THEN x ELSE Shl(2 * x, n - 1)

\* A Python integer does not overflow.  The 32-bit fields are kept as two
\* 16-bit limbs, value = hi * 65536 + lo, so that the model's arithmetic
\* stays exact over the whole range of the four bytes.
Wide(x) == [hi |-> x \div 65536, lo |-> x % 65536]

\* w << 1
WideShl1(w) == [hi |-> 2 * w.hi + (2 * w.lo) \div 65536, lo |-> (2 * w.lo) % 65536]

\* w << 8
WideShl8(w) ==
    [hi |-> 256 * w.hi + (256 * w.lo) \div 65536, lo |-> (256 * w.lo) % 65536]

\* w << n, a byte at a time while it can
RECURSIVE WideShl(_, _)
WideShl(w, n) ==
    IF n = 0 THEN w
    ELSE IF n >= 8 THEN WideShl(WideShl8(w), n - 8)
    ELSE WideShl(WideShl1(w), n - 1)

\* a + b
WideAdd(a, b) ==
    [hi |-> a.hi + b.hi + (a.lo + b.lo) \div 65536, lo |-> (a.lo + b.lo) % 65536]

\* the statements  v = b0 << 24; v += b1 << 16; v += b2 << 8; v += b3
Assemble32(b0, b1, b2, b3) ==
    WideAdd(WideAdd(WideAdd(WideShl(Wide(b0), 24), WideShl(Wide(b1), 16)),
                    WideShl(Wide(b2), 8)),
            Wide(b3))

\* x * 0.01 for a 16-bit x: the value in hundredths, as units and cents
Times001(x) == [units |-> x \div 100, cents |-> x % 100]

\* json.dumps of the parsed dict: the key/value pairs in insertion order
JsonDumps(d) ==
    << <<"datetime", d.datetime>>, <<"userid", d.userid>>,
       <<"weight", d.weight>>, <<"resistance", d.resistance>>,
       <<"fat", d.fat>> >>

\* the indices of idxs (in the order the code uses them) that lie outside data
OutOfRange(data, idxs) == {i \in idxs : i >= Len(data)}

----------------------------------------------------------------------------
(* YunmaiDelegate *)

\* a delegate constructed without its mqttclient argument
client_Missing == "None"

\* the mqtt client handed to the delegate (line 282): None when MQTT is off
client == IF MQTT_EN THEN "mqttclient" ELSE "None"

\* __init__ (lines 121-128)
NewDelegate ==
    [message_prev |-> <<>>, message_now |-> <<>>, list_parsed_msg |-> <<>>]

\* the topic of line 224
PublishTopic(name) == "YunmaiScaleE35F/raw"

\* a decoder that assembles its fields low byte first
ParseFinished_LittleEndian(data) ==
    [datetime   |-> Assemble32(At(data, 8), At(data, 7), At(data, 6), At(data, 5)),
     userid     |-> Assemble32(At(data, 12), At(data, 11), At(data, 10), At(data, 9)),
     weight     |-> Times001(Shl(At(data, 14), 8) + At(data, 13)),
     resistance |-> Shl(At(data, 16), 8) + At(data, 15),
     fat        |-> Times001(Shl(At(data, 18), 8) + At(data, 17))]

\* the dict of lines 193-220
ParseFinished(data) ==
    [datetime   |-> Assemble32(At(data, 5), At(data, 6), At(data, 7), At(data, 8)),
     userid     |-> Assemble32(At(data, 9), At(data, 10), At(data, 11), At(data, 12)),
     weight     |-> Times001(Shl(At(data, 13), 8) + At(data, 14)),
     resistance |-> Shl(At(data, 15), 8) + At(data, 16),
     fat        |-> Times001(Shl(At(data, 17), 8) + At(data, 18))]

\* the values of lines 168-175
ParseUnfinished(data) ==
    [datetime |-> Assemble32(At(data, 4), At(data, 5), At(data, 6), At(data, 7)),
     weight   |-> Times001(Shl(At(data, 8), 8) + At(data, 9))]

\* a handler call that ends by `return`: the delegate afterwards, the publish
\* calls made, and the branch taken
Returned(self, calls, branch) ==
    [self |-> self, calls |-> calls, raised |-> FALSE, branch |-> branch]

\* a handler call that ends by an uncaught IndexError
Raised(self) ==
    [self |-> self, calls |-> <<>>, raised |-> TRUE, branch |-> "IndexError"]

\* lines 155-156 in the other order: message_prev gets the new buffer
Remember_Swapped(self, data) ==
    [self EXCEPT !.message_prev = data, !.message_now = data]

\* lines 155-156
Remember(self, data) ==
    [self EXCEPT !.message_prev = self.message_now, !.message_now = data]

\* lines 160-179: the branch of an unfinished weighing (0x01)
OnUnfinished(s1, data) ==
    IF OutOfRange(data, 4..9) # {}
    THEN Raised(s1)                                                 \* 168-174
    ELSE Returned(s1, <<>>, "Unfinished")                           \* 177-179

\* a finished branch that drops a frame equal to the one received before it
OnFinished_Dedup(s1, name, data) ==
    IF OutOfRange(data, 5..18) # {}
    THEN Raised(s1)
    ELSE IF s1.message_prev = data
    THEN Returned(s1, <<>>, "Finished")
    ELSE LET dict_parsed_msg == ParseFinished(data)
             s2 == [s1 EXCEPT !.list_parsed_msg = Append(@, dict_parsed_msg)]
         IN  Returned(s2, << [topic   |-> PublishTopic(name),
                              payload |-> JsonDumps(dict_parsed_msg)] >>,
                      "Finished")

\* a finished branch that puts the newest entry first in the history
OnFinished_Prepend(s1, name, data) ==
    IF OutOfRange(data, 5..18) # {}
    THEN Raised(s1)
    ELSE LET dict_parsed_msg == ParseFinished(data)
             s2 == [s1 EXCEPT !.list_parsed_msg = <<dict_parsed_msg>> \o @]
         IN  Returned(s2, << [topic   |-> PublishTopic(name),
                              payload |-> JsonDumps(dict_parsed_msg)] >>,
                      "Finished")

\* lines 181-224: the branch of a finished weighing (0x02)
OnFinished(s1, name, data) ==
    IF OutOfRange(data, 5..18) # {}
    THEN Raised(s1)                                                 \* 193-211
    ELSE LET dict_parsed_msg == ParseFinished(data)                 \* 214-220
             s2 == [s1 EXCEPT !.list_parsed_msg =
                       Append(@, dict_parsed_msg)]                  \* 222
             calls ==
                 IF client # "None"                                 \* 223
                 THEN << [topic   |-> PublishTopic(name),
                          payload |-> JsonDumps(dict_parsed_msg)] >>
                 ELSE <<>>
         IN  Returned(s2, calls, "Finished")

\* a dispatch that has no branch for the message types it does not know
OnOther_NoDefault(s1, message_type) ==
    IF message_type = TypeTimeCheck
    THEN Returned(s1, <<>>, "TimeCheck")
    ELSE Raised(s1)

\* lines 226-232: the time check (0x17) and every other message type
OnOther(s1, message_type) ==
    IF message_type = TypeTimeCheck
    THEN Returned(s1, <<>>, "TimeCheck")                            \* 226-228
    ELSE Returned(s1, <<>>, "Unprocessed")                          \* 229-232

\* a handler that drops a buffer whose declared length (index 2) is not its
\* length
handleNotification_LengthChecked(self, name, data) ==
    IF OutOfRange(data, {0}) # {} THEN Raised(self)
    ELSE IF At(data, 0) # PacketStart
         THEN Returned(self, <<>>, "InvalidStart")
    ELSE IF Len(data) < 4 \/ At(data, 2) # Len(data)
         THEN Returned(self, <<>>, "Incomplete")
    ELSE LET s1 == Remember(self, data)
             message_type == At(data, 3)
         IN  IF message_type = TypeUnfinished
             THEN OnUnfinished(s1, data)
             ELSE IF message_type = TypeFinished
             THEN OnFinished(s1, name, data)
             ELSE OnOther(s1, message_type)

\* handleNotification (lines 130-232), statement by statement
handleNotification(self, name, data) ==
    IF OutOfRange(data, {0}) # {} THEN Raised(self)                 \* 147
    ELSE IF At(data, 0) # PacketStart
         THEN Returned(self, <<>>, "InvalidStart")                  \* 147-149
    ELSE IF Len(data) < 4
         THEN Returned(self, <<>>, "Incomplete")                    \* 151-153
    ELSE LET s1 == Remember(self, data)                             \* 155-156
             message_type == At(data, 3)                            \* 158
         IN  IF message_type = TypeUnfinished                       \* 160
             THEN OnUnfinished(s1, data)
             ELSE IF message_type = TypeFinished                    \* 181
             THEN OnFinished(s1, name, data)
             ELSE OnOther(s1, message_type)

----------------------------------------------------------------------------
(* The notification buffers the transport delivers *)

\* a finished weighing: 2017-12-21, user 1, 2.00 kg, 150 ohm, 0.55 % fat
FrameDone1 ==
    <<13, 30, 20, 2, 0, 90, 59, 44, 29, 0, 0, 0, 1, 0, 200, 0, 150, 0, 55, 48>>

\* a finished weighing whose bytes all differ
FrameDone2 ==
    <<13, 30, 20, 2, 0, 1, 2, 3, 4, 5, 6, 7, 8, 9, 10, 11, 12, 13, 14, 7>>

\* an unfinished weighing
FrameProgress == <<13, 30, 11, 1, 90, 59, 44, 28, 0, 199, 130>>

\* the answer to a time check
FrameTimeCheck == <<13, 30, 5, 23, 12>>

\* the example response of the protocol notes (type 0x05)
FrameOther == <<13, 30, 5, 5, 30>>

Prefix(f, n) == SubSeq(f, 1, n)

\* the same buffer with a wrong first byte
BadStart(f) == [f EXCEPT ![1] = 0]

\* the buffers of the session specification: whole frames, truncated frames,
\* the empty buffer and buffers with a wrong start byte
Buffers ==
    {Prefix(FrameDone1, n) : n \in {0, 1, 3, 4, 18, 19, 20}}
    \cup {FrameDone2}
    \cup {Prefix(FrameProgress, n) : n \in {4, 9, 10, 11}}
    \cup {Prefix(FrameTimeCheck, n) : n \in {4, 5}}
    \cup {FrameOther}
    \cup {BadStart(FrameDone1), <<0>>}

\* a buffer of length n with start byte s and message type t; the other
\* bytes follow the frame layout (version, declared length) or count up
FrameOf(s, t, n) ==
    [i \in 1..n |-> IF i = 1 THEN s
                    ELSE IF i = 2 THEN 30
                    ELSE IF i = 3 THEN n
                    ELSE IF i = 4 THEN t
                    ELSE i]

\* the buffers of the handler specification: every length up to MaxLen and
\* every message type byte
WideBuffers ==
    {FrameOf(s, t, n) : s \in {PacketStart, 0}, t \in 0..255, n \in 0..MaxLen}

----------------------------------------------------------------------------
(* The main program (lines 281-343) *)

\* a response of the transport that carries no buffer
Did(kind) == [kind |-> kind, data |-> <<>>]

Init ==
    /\ scale_connected = FALSE
    /\ message_prev = NewDelegate.message_prev
    /\ message_now = NewDelegate.message_now
    /\ list_parsed_msg = NewDelegate.list_parsed_msg
    /\ published = <<>>
    /\ scale_name \in ScaleNames
    /\ elapsed = 0
    /\ pc = "test"
    /\ io = Did("none")

Delegate ==
    [message_prev |-> message_prev, message_now |-> message_now,
     list_parsed_msg |-> list_parsed_msg]

\* the clock advances
Tick ==
    /\ elapsed < time_run
    /\ elapsed' = elapsed + 1
    /\ UNCHANGED <<scale_connected, message_prev, message_now, list_parsed_msg,
                   published, scale_name, pc, io>>

\* a loop test that is off by one
LoopCondition_OffByOne == Abs(elapsed) <= time_run

\* the condition of the while statement (line 292)
LoopCondition == Abs(elapsed) < time_run

\* a loop that waits for notifications whatever the flag says
LoopTest_AlwaysWait ==
    /\ pc = "test"
    /\ pc' = IF LoopCondition THEN "wait" ELSE "exited"
    /\ UNCHANGED <<scale_connected, message_prev, message_now, list_parsed_msg,
                   published, scale_name, elapsed, io>>

\* line 292-293 and 331: the loop test and the choice of the branch
LoopTest ==
    /\ pc = "test"
    /\ pc' = IF LoopCondition
             THEN (IF scale_connected THEN "wait" ELSE "connect")
             ELSE "exited"
    /\ UNCHANGED <<scale_connected, message_prev, message_now, list_parsed_msg,
                   published, scale_name, elapsed, io>>

\* the delegate and the sink after the handler ran on data, and where the
\* program goes: back to the loop test (line 297), or out with the traceback
\* of an exception that no except clause of the loop catches (line 327)
AfterNotification(r) ==
    /\ message_prev' = r.self.message_prev
    /\ message_now' = r.self.message_now
    /\ list_parsed_msg' = r.self.list_parsed_msg
    /\ published' = published \o r.calls
    /\ pc' = IF r.raised THEN "crashed" ELSE "test"

\* line 295: waitForNotifications receives a notification and calls the handler
WaitNotified(data) ==
    /\ pc = "wait"
    /\ LET r == handleNotification(Delegate, scale_name, data)
       IN  /\ Len(r.self.list_parsed_msg) <= MaxHist
           /\ AfterNotification(r)
    /\ io' = [kind |-> "notified", data |-> data]
    /\ UNCHANGED <<scale_connected, scale_name, elapsed>>

\* line 295, 298: waitForNotifications returns False after 2.0 s
WaitTimeout ==
    /\ pc = "wait"
    /\ pc' = "test"
    /\ io' = Did("timeout")
    /\ UNCHANGED <<scale_connected, message_prev, message_now, list_parsed_msg,
                   published, scale_name, elapsed>>

\* an except clause that forgets to clear the flag
OnWaitException_Keeps(code) == scale_connected

\* an except clause that clears the flag whatever the code
OnWaitException_AnyCode(code) == FALSE

\* lines 327-330: what the except clause does with a BTLEException of a code
OnWaitException(code) ==
    IF code = DISCONNECTED THEN FALSE ELSE scale_connected

\* line 295, 327-330: waitForNotifications raises a BTLEException
WaitRaises(code) ==
    /\ pc = "wait"
    /\ scale_connected' = OnWaitException(code)
    /\ pc' = "test"
    /\ io' = Did(IF code = DISCONNECTED THEN "disconnected" ELSE "error")
    /\ UNCHANGED <<message_prev, message_now, list_parsed_msg,
                   published, scale_name, elapsed>>

\* a connect branch that forgets line 337
ConnectSucceeds_NoFlag ==
    /\ pc = "connect"
    /\ pc' = "test"
    /\ io' = Did("connected")
    /\ UNCHANGED <<scale_connected, message_prev, message_now, list_parsed_msg,
                   published, scale_name, elapsed>>

\* lines 334-337: connect returns
ConnectSucceeds ==
    /\ pc = "connect"
    /\ scale_connected' = TRUE
    /\ pc' = "test"
    /\ io' = Did("connected")
    /\ UNCHANGED <<message_prev, message_now, list_parsed_msg,
                   published, scale_name, elapsed>>

\* lines 334, 339-340: connect raises a BTLEException
ConnectFails ==
    /\ pc = "connect"
    /\ pc' = "test"
    /\ io' = Did("connect_failed")
    /\ UNCHANGED <<scale_connected, message_prev, message_now, list_parsed_msg,
                   published, scale_name, elapsed>>

Next ==
    \/ Tick
    \/ LoopTest
    \/ \E data \in Buffers : WaitNotified(data)
    \/ WaitTimeout
    \/ \E code \in BTLECodes : WaitRaises(code)
    \/ ConnectSucceeds
    \/ ConnectFails

Spec == Init /\ [][Next]_vars

\* every blocking call returns and the program goes on: the steps of the
\* program itself
Step ==
    \/ LoopTest
    \/ \E data \in Buffers : WaitNotified(data)
    \/ WaitTimeout
    \/ \E code \in BTLECodes : WaitRaises(code)
    \/ ConnectSucceeds
    \/ ConnectFails

\* the session under the assumptions that time passes and that every bounded
\* wait and every connect attempt returns
FairSpec == Spec /\ WF_vars(Tick) /\ WF_vars(Step)

----------------------------------------------------------------------------
(* The handler on every message type and every length: the program is      *)
(* connected and waiting (line 295), its delegate is new or has seen one    *)
(* finished weighing, and one notification arrives.                         *)

SeenOne(name) == handleNotification(NewDelegate, name, FrameDone1)

HandlerInit ==
    /\ scale_connected = TRUE
    /\ scale_name \in ScaleNames
    /\ \E r \in {Returned(NewDelegate, <<>>, "none"), SeenOne(scale_name)} :
          /\ message_prev = r.self.message_prev
          /\ message_now = r.self.message_now
          /\ list_parsed_msg = r.self.list_parsed_msg
          /\ published = r.calls
    /\ elapsed = 0
    /\ pc = "wait"
    /\ io = Did("connected")

HandlerNext == pc = "wait" /\ \E data \in WideBuffers : WaitNotified(data)

HandlerSpec == HandlerInit /\ [][HandlerNext]_vars

----------------------------------------------------------------------------
(* The decoder on finished frames whose fields take the ends and the middle *)
(* of their ranges: the program is connected and waiting, and one finished  *)
(* frame arrives.                                                           *)

\* the bytes of a 32-bit field
Quads ==
    {<<0, 0, 0, 0>>, <<255, 255, 255, 255>>, <<1, 2, 3, 4>>, <<128, 0, 0, 0>>,
     <<90, 59, 44, 29>>}

\* the bytes of a 16-bit field
Pairs == {<<0, 0>>, <<0, 200>>, <<0, 150>>, <<0, 55>>, <<255, 255>>, <<1, 2>>}

\* a finished frame with these fields, without or with its checksum byte
FinishedFrame(dt, uid, w, r, f, chk) ==
    <<13, 30, 19 + Len(chk), 2, 0>> \o dt \o uid \o w \o r \o f \o chk

DecodeBuffers ==
    {FinishedFrame(dt, uid, w, r, f, chk) :
        dt \in Quads, uid \in Quads, w \in Pairs, r \in Pairs, f \in Pairs,
        chk \in {<<>>, <<0>>}}

DecodeNext == pc = "wait" /\ \E data \in DecodeBuffers : WaitNotified(data)

DecodeSpec == HandlerInit /\ [][DecodeNext]_vars

----------------------------------------------------------------------------
(* Properties *)

\* the least length of a frame of message type t: the fields of the type
\* end at index 9 (0x01) and 18 (0x02), the type byte is at index 3
MinLength(t) ==
    IF t = TypeUnfinished THEN 10 ELSE IF t = TypeFinished THEN 19 ELSE 4

WellFramed(d) ==
    /\ Len(d) >= 4
    /\ At(d, 0) = PacketStart
    /\ Len(d) >= MinLength(At(d, 3))

IsFinishedFrame(d) == WellFramed(d) /\ At(d, 3) = TypeFinished

Running == pc \in {"test", "wait", "connect"}

\* the value json.dumps wrote for a key of the payload
Field(payload, key) ==
    LET i == CHOOSE j \in 1..Len(payload) : payload[j][1] = key
    IN  payload[i][2]

PayloadKeys == {"datetime", "userid", "weight", "resistance", "fat"}

\* a step in which waitForNotifications delivered a buffer to the handler
Notified == pc = "wait" /\ pc' # pc /\ io'.kind = "notified"

\* C1: the handler never uses an index at or past the end of the buffer, so
\* no notification, whatever its length, ends the handler with an IndexError
\* (the traceback of which ends the program).
C1_NoReadPastEnd == pc # "crashed"

\* C2: a notification makes one publish call if it is a finished frame
\* (start 0x0d, type 0x02, 19 bytes or more) and none otherwise; the call is
\* made within the handler, and its payload carries the five values of the
\* measurement the same call appended to the history; so the publish calls
\* and the history entries correspond one to one.
C2_OnePublishPerFinished ==
    [][Notified =>
          IF IsFinishedFrame(io'.data)
          THEN /\ Len(list_parsed_msg') = Len(list_parsed_msg) + 1
               /\ Len(published') = Len(published) + 1
               /\ SubSeq(published', 1, Len(published)) = published
               /\ LET m == list_parsed_msg'[Len(list_parsed_msg')]
                      p == published'[Len(published')]
                  IN  \A k \in PayloadKeys : Field(p.payload, k) = m[k]
               /\ Len(published') = Len(list_parsed_msg')
          ELSE published' = published]_vars

C2_Witness ==
    /\ Len(published) = 2
    /\ published[1] # published[2]
    /\ io.kind = "notified"
    /\ IsFinishedFrame(io.data)
    /\ pc = "test"

\* C3: a well-framed notification whose type byte is not 0x02 (0x01, 0x17
\* or any other value of 0..255) leaves the history and the publish calls as
\* they were, and the handler returns.
C3_OtherTypesNoEffect ==
    [][(Notified /\ WellFramed(io'.data) /\ At(io'.data, 3) # 2) =>
          /\ list_parsed_msg' = list_parsed_msg
          /\ published' = published
          /\ pc' = "test"]_vars

C3_Witness ==
    /\ pc = "test"
    /\ io.kind = "notified"
    /\ Len(io.data) = 4
    /\ At(io.data, 3) = 255
    /\ Len(list_parsed_msg) = 1

\* C4: a malformed buffer (wrong start byte, or shorter than the minimum
\* length of its message type) appends nothing, publishes nothing, leaves
\* the session state alone, and the loop goes on to the next notification.
C4_MalformedDropped ==
    [][(Notified /\ ~WellFramed(io'.data)) =>
          /\ list_parsed_msg' = list_parsed_msg
          /\ published' = published
          /\ scale_connected' = scale_connected
          /\ pc' = "test"]_vars

\* C5: as long as the stop condition does not hold the loop is running,
\* whatever has been received.
C5_NothingFatal == (Abs(elapsed) < time_run) => Running

\* C6: a disconnection reported while Connected clears the state in the same
\* iteration, and the next iteration, if the stop condition does not hold,
\* is a connect attempt.
C6_DisconnectThenConnect ==
    [][/\ (pc = "wait" /\ pc' # pc /\ scale_connected
              /\ io'.kind = "disconnected")
            => (~scale_connected' /\ pc' = "test")
       /\ (pc = "test" /\ pc' # pc /\ io.kind = "disconnected")
            => pc' = (IF Abs(elapsed) < time_run THEN "connect" ELSE "exited")
      ]_vars

C6_Witness ==
    /\ io.kind = "disconnected"
    /\ pc = "connect"
    /\ Len(list_parsed_msg) = 1

\* C7: the session starts Disconnected; an iteration that starts Disconnected
\* is one connect attempt; a failed attempt leaves the state Disconnected, a
\* successful one sets it Connected, both go back to the loop test; no
\* connect attempt is made while Connected.
C7_ConnectRetry ==
    /\ ~scale_connected
    /\ [][/\ (pc = "test" /\ pc' # pc /\ ~scale_connected)
               => pc' = (IF Abs(elapsed) < time_run THEN "connect" ELSE "exited")
          /\ (pc' = "connect") => ~scale_connected
          /\ (pc = "connect" /\ pc' # pc)
               => /\ pc' = "test"
                  /\ io'.kind \in {"connect_failed", "connected"}
                  /\ scale_connected' = (io'.kind = "connected")
         ]_vars

C7_Witness ==
    /\ io.kind = "connect_failed"
    /\ pc = "connect"
    /\ ~scale_connected

\* C8: the state leaves Connected only in a wait in which the transport
\* reported a disconnection; a timeout, a notification and the handler leave
\* it alone.
C8_OnlyDisconnectLeavesConnected ==
    [][(scale_connected /\ ~scale_connected')
          => (pc = "wait" /\ io'.kind = "disconnected")]_vars

C8_Witness ==
    /\ scale_connected
    /\ io.kind = "notified"
    /\ Len(list_parsed_msg) = 2
    /\ pc = "wait"

\* C9: once the elapsed time has reached the budget no wait and no connect
\* attempt is started, and the loop ends, from the Connected and from the
\* Disconnected state.
C9_Terminates ==
    /\ [][(Abs(elapsed) >= time_run /\ pc' # pc)
             => pc' \notin {"wait", "connect"}]_vars
    /\ <>(~Running)

C9_Witness ==
    /\ pc = "exited"
    /\ scale_connected
    /\ Len(list_parsed_msg) = 1

\* C10: the topic of every publish call is the scale name of the delegate
\* followed by "/raw".
C10_TopicFromScaleName ==
    \A i \in 1..Len(published) : published[i].topic = scale_name \o "/raw"

\* C11: the history is bounded: its length stays under a fixed cap however
\* many finished frames arrive.  The model stops delivering finished frames
\* at MaxHist entries, so the caps it can exercise are those below MaxHist.
C11_HistoryCapped == Len(list_parsed_msg) < MaxHist

\* what a handler call that took the delegate from self to r.self did, apart
\* from remembering the buffer: how it ended, where it branched, the entries
\* it appended to the history and the publish calls it made
Outcome(self, r) ==
    [raised   |-> r.raised,
     branch   |-> r.branch,
     appended |-> SubSeq(r.self.list_parsed_msg,
                         Len(self.list_parsed_msg) + 1,
                         Len(r.self.list_parsed_msg)),
     calls    |-> r.calls]

\* the entries the step appended to the history, and the calls it published
Appended == SubSeq(list_parsed_msg', Len(list_parsed_msg) + 1, Len(list_parsed_msg'))

Published == SubSeq(published', Len(published) + 1, Len(published'))

\* C12: the outcome of a notification depends on its bytes alone: whatever
\* the delegate has seen before (previous and current message, history), the
\* handler ends the same way, takes the same branch, appends the same
\* measurement and publishes the same payload as a new delegate does on the
\* same bytes.
C12_HistoryIndependent ==
    [][Notified =>
          LET d     == io'.data
              here  == handleNotification(Delegate, scale_name, d)
              fresh == handleNotification(NewDelegate, scale_name, d)
          IN  /\ here.branch = fresh.branch
              /\ (pc' = "crashed") = fresh.raised
              /\ Appended = fresh.self.list_parsed_msg
              /\ Published = fresh.calls]_vars

C12_Witness ==
    /\ io.kind = "notified"
    /\ io.data = FrameDone1
    /\ message_prev = FrameDone1
    /\ Len(list_parsed_msg) = 2
    /\ pc = "test"

\* the last entry of the history
LastParsed == list_parsed_msg[Len(list_parsed_msg)]

\* the value of a decoded x * 0.01, in hundredths
Hundredths(v) == v.units * 100 + v.cents

\* C13: the entry a finished frame b appends has datetime = b[5]*2^24 +
\* b[6]*2^16 + b[7]*2^8 + b[8] and userid likewise from b[9..12] (as limbs:
\* hi = first byte * 256 + second, lo = third * 256 + fourth, so the value is
\* within 0..2^32-1), weight in hundredths = b[13]*256 + b[14], resistance =
\* b[15]*256 + b[16] and fat in hundredths = b[17]*256 + b[18], each within
\* 0..65535; bytes 00 C8 give weight 2.00, 00 96 resistance 150, 00 37 fat
\* 0.55.
C13_BigEndianFields ==
    (pc = "test" /\ io.kind = "notified" /\ IsFinishedFrame(io.data)) =>
        LET b == io.data
            m == LastParsed
        IN  /\ m.datetime.hi = At(b, 5) * 256 + At(b, 6)
            /\ m.datetime.lo = At(b, 7) * 256 + At(b, 8)
            /\ m.userid.hi = At(b, 9) * 256 + At(b, 10)
            /\ m.userid.lo = At(b, 11) * 256 + At(b, 12)
            /\ Hundredths(m.weight) = At(b, 13) * 256 + At(b, 14)
            /\ m.weight.cents \in 0..99
            /\ m.resistance = At(b, 15) * 256 + At(b, 16)
            /\ Hundredths(m.fat) = At(b, 17) * 256 + At(b, 18)
            /\ m.fat.cents \in 0..99
            /\ \A v \in {m.datetime.hi, m.datetime.lo, m.userid.hi, m.userid.lo,
                         Hundredths(m.weight), m.resistance, Hundredths(m.fat)} :
                  v \in 0..65535
            /\ (At(b, 13) = 0 /\ At(b, 14) = 200)
                  => m.weight = [units |-> 2, cents |-> 0]
            /\ (At(b, 15) = 0 /\ At(b, 16) = 150) => m.resistance = 150
            /\ (At(b, 17) = 0 /\ At(b, 18) = 55)
                  => m.fat = [units |-> 0, cents |-> 55]

C13_Witness ==
    /\ pc = "test"
    /\ io.kind = "notified"
    /\ IsFinishedFrame(io.data)
    /\ LastParsed.datetime = [hi |-> 65535, lo |-> 65535]
    /\ LastParsed.userid = [hi |-> 32768, lo |-> 0]
    /\ LastParsed.weight = [units |-> 2, cents |-> 0]
    /\ LastParsed.resistance = 150
    /\ LastParsed.fat = [units |-> 0, cents |-> 55]

\* C14: frames are handled one at a time and in order of receipt: a step
\* that delivers a finished frame appends its measurement at the end of the
\* history and its payload at the end of the publish calls, every other step
\* leaves both as they are (no entry is removed, moved or modified), the
\* i-th publish call carries the i-th entry of the history, and both are
\* complete when the loop starts its next wait.
C14_InOrderOfReceipt ==
    [][/\ IF Notified /\ IsFinishedFrame(io'.data)
          THEN /\ list_parsed_msg' =
                     Append(list_parsed_msg, ParseFinished(io'.data))
               /\ Len(published') = Len(published) + 1
               /\ SubSeq(published', 1, Len(published)) = published
          ELSE /\ list_parsed_msg' = list_parsed_msg
               /\ published' = published
       /\ Len(published') = Len(list_parsed_msg')
       /\ \A i \in 1..Len(published') :
             published'[i].payload = JsonDumps(list_parsed_msg'[i])
      ]_vars

C14_Witness ==
    /\ list_parsed_msg = <<ParseFinished(FrameDone2), ParseFinished(FrameDone1)>>
    /\ Len(published) = 2
    /\ published[1].payload = JsonDumps(ParseFinished(FrameDone2))
    /\ pc = "wait"
    /\ io.kind = "timeout"

\* the index of the checksum byte of a buffer, after the fields of its type
\* (protocol notes: 10 for 0x01, 19 for 0x02, 8 for 0x17; the last byte of
\* every other type)
ChecksumIndex(d) ==
    IF At(d, 3) = 1 THEN 10
    ELSE IF At(d, 3) = 2 THEN 19
    ELSE IF At(d, 3) = 23 THEN 8
    ELSE Len(d) - 1

\* the indices of the bytes the decoder is to ignore, where d has them: the
\* software version, the declared length and the checksum
IgnoredIndices(d) ==
    {i \in {1, 2} : i < Len(d)}
    \cup (IF Len(d) >= 5 /\ ChecksumIndex(d) \in 4..(Len(d) - 1)
          THEN {ChecksumIndex(d)} ELSE {})

SampleBytes == {0, 2, 13, 255}

\* the buffers that differ from d in one ignored byte
Variants(d) ==
    {[d EXCEPT ![i + 1] = x] : i \in IgnoredIndices(d), x \in SampleBytes}

\* C15: the checksum, the software version and the declared length are not
\* looked at: a buffer that differs from the delivered one only in one of
\* these bytes ends the handler the same way, on the same branch, with the
\* same entry appended to the history and the same payload published.
C15_ChecksumIgnored ==
    [][Notified =>
          LET d    == io'.data
              here == handleNotification(Delegate, scale_name, d)
          IN  \A v \in Variants(d) :
                 LET r == handleNotification(Delegate, scale_name, v)
                 IN  /\ r.raised = (pc' = "crashed")
                     /\ r.branch = here.branch
                     /\ Outcome(Delegate, r).appended = Appended
                     /\ r.calls = Published]_vars

C15_Witness ==
    /\ pc = "test"
    /\ io.kind = "notified"
    /\ Len(io.data) = 20
    /\ IsFinishedFrame(io.data)
    /\ Cardinality(Variants(io.data)) >= 9
    /\ Len(list_parsed_msg) = 2

\* C16: the loop waits for notifications only in an iteration that begins
\* Connected and connects only in one that begins Disconnected; an iteration
\* is the loop test followed by one blocking call, a wait or a connect
\* attempt, after which the loop test is next; the handler runs, and the
\* delegate, the history and the publish calls change, only in a wait of a
\* Connected iteration.
C16_HandledOnlyWhileConnected ==
    [][/\ (pc = "test" /\ pc' # pc)
             => pc' = (IF Abs(elapsed) >= time_run THEN "exited"
                       ELSE IF scale_connected THEN "wait" ELSE "connect")
       /\ (pc \in {"wait", "connect"} /\ pc' # pc) => pc' \in {"test", "crashed"}
       /\ Notified => scale_connected
       /\ (\/ list_parsed_msg' # list_parsed_msg
           \/ published' # published
           \/ message_now' # message_now
           \/ message_prev' # message_prev)
             => (Notified /\ scale_connected)
       /\ (pc = "connect" /\ pc' # pc)
             => io'.kind \in {"connected", "connect_failed"}
      ]_vars

C16_Witness ==
    /\ pc = "wait"
    /\ scale_connected
    /\ io.kind = "connected"
    /\ elapsed = 1
    /\ Len(list_parsed_msg) = 1

\* C17: a notification whose buffer starts with 0x0d and has 4 bytes or more
\* makes message_now that buffer and message_prev the former message_now
\* (also when the handler then fails on a missing field); a buffer with
\* another start byte or with fewer than 4 bytes leaves both as they were.
C17_PrevAndNow ==
    [][Notified =>
          LET d == io'.data
          IN  IF Len(d) >= 4 /\ At(d, 0) = 13
              THEN message_now' = d /\ message_prev' = message_now
              ELSE message_now' = message_now /\ message_prev' = message_prev
      ]_vars

C17_Witness ==
    /\ io.kind = "notified"
    /\ io.data = FrameTimeCheck
    /\ message_now = FrameTimeCheck
    /\ message_prev = FrameDone1
    /\ pc = "test"

====
